---- MODULE Spec2Model ----
(***************************************************************************)
(* Automated File Organizer (src/Automated_File_Organizer/organizer.py).   *)
(*                                                                         *)
(* organize_directory walks a source tree with Path.rglob('*'), classifies *)
(* every regular file by its lower-cased extension, and moves it (or, in   *)
(* dry-run, only records the move) to source/<category>/<name>, renaming   *)
(* with " (N)" on conflicts and recording per-file failures.               *)
(*                                                                         *)
(* File names are sequences of one-character strings, so that suffix/stem  *)
(* splitting, lower-casing and the " (N)" renaming are computed the way    *)
(* the code computes them.  A path is a sequence of names relative to the  *)
(* source directory, which is the empty path.                              *)
(***************************************************************************)
EXTENDS Integers, Sequences, FiniteSets, TLC

VARIABLES
    fs,             \* the filesystem below (and including) the source: path -> entry
    fs0,            \* the filesystem when the first run started
    dry_run,        \* argument of organize_directory
    include_hidden, \* argument of organize_directory
    rev,            \* the directory listing order of this filesystem (os.scandir)
    deny,           \* file id -> how moving that file fails, if it does
    pc,             \* "start", "loop" or "done"
    gen,            \* position of the lazy source.rglob('*') generator
    moved,          \* list of (item, target_path)
    errors,         \* list of (item, description)
    skipped,        \* list of items
    total_files,    \* counter
    result,         \* what organize_directory returned
    log,            \* the records handed to logging
    prev,           \* the previous run, when a second run follows it
    unit,           \* input and output of a single helper evaluation
    tick            \* flips with every step the call takes

vars == <<fs, fs0, dry_run, include_hidden, rev, deny, pc, gen, moved, errors,
          skipped, total_files, result, log, prev, unit, tick>>

----------------------------------------------------------------------------
(* Characters and names *)

\* The characters that occur in names, in ASCII order.
Chars == <<" ", "(", ")", ".", "0", "1", "2", "3", "4", "5", "6", "7", "8", "9",
           "A", "B", "C", "D", "E", "F", "G", "H", "I", "J", "K", "L", "M", "N",
           "O", "P", "Q", "R", "S", "T", "U", "V", "W", "X", "Y", "Z", "_",
           "a", "b", "c", "d", "e", "f", "g", "h", "i", "j", "k", "l", "m", "n",
           "o", "p", "q", "r", "s", "t", "u", "v", "w", "x", "y", "z">>

UpperCase == <<"A", "B", "C", "D", "E", "F", "G", "H", "I", "J", "K", "L", "M",
               "N", "O", "P", "Q", "R", "S", "T", "U", "V", "W", "X", "Y", "Z">>

LowerCase == <<"a", "b", "c", "d", "e", "f", "g", "h", "i", "j", "k", "l", "m",
               "n", "o", "p", "q", "r", "s", "t", "u", "v", "w", "x", "y", "z">>

Digit == <<"0", "1", "2", "3", "4", "5", "6", "7", "8", "9">>

CodeTable == [c \in {Chars[i] : i \in DOMAIN Chars} |->
                 CHOOSE i \in DOMAIN Chars : Chars[i] = c]

Code(c) == CodeTable[c]

\* str.lower() on one character
LowerChar(c) ==
    IF \E i \in DOMAIN UpperCase : UpperCase[i] = c
    THEN LowerCase[CHOOSE i \in DOMAIN UpperCase : UpperCase[i] = c]
    ELSE c

\* A faulty variant of Lower: the extension is looked up as written.
LowerNot(s) == s

\* str.lower(): item.suffix.lower()
Lower(s) == [i \in DOMAIN s |-> LowerChar(s[i])]

\* str.rfind('.'), 1-based, 0 when there is no dot
RFindDot(name) ==
    IF \E i \in DOMAIN name : name[i] = "."
    THEN CHOOSE i \in DOMAIN name :
            name[i] = "." /\ \A j \in DOMAIN name : name[j] = "." => j <= i
    ELSE 0

\* PurePath.suffix: the last dot and what follows it, unless that dot is the
\* first or the last character of the name
Suffix(name) ==
    LET i == RFindDot(name)
    IN  IF 1 < i /\ i < Len(name) THEN SubSeq(name, i, Len(name)) ELSE <<>>

\* PurePath.stem: the name without its suffix
Stem(name) ==
    LET i == RFindDot(name)
    IN  IF 1 < i /\ i < Len(name) THEN SubSeq(name, 1, i - 1) ELSE name

\* the decimal digits of a counter, as f"{counter}" formats it
RECURSIVE Decimal(_)
Decimal(n) ==
    IF n < Len(Digit) THEN <<Digit[n + 1]>>
    ELSE Decimal(n \div Len(Digit)) \o <<Digit[(n % Len(Digit)) + 1]>>

\* str.startswith('.')
StartsWithDot(name) == Len(name) > 0 /\ name[1] = "."

----------------------------------------------------------------------------
(* The category table *)

Python_Code == <<"P", "y", "t", "h", "o", "n", "_", "C", "o", "d", "e">>
Notebooks == <<"N", "o", "t", "e", "b", "o", "o", "k", "s">>
Documents == <<"D", "o", "c", "u", "m", "e", "n", "t", "s">>
Spreadsheets == <<"S", "p", "r", "e", "a", "d", "s", "h", "e", "e", "t", "s">>
Images == <<"I", "m", "a", "g", "e", "s">>
Audio == <<"A", "u", "d", "i", "o">>
Video == <<"V", "i", "d", "e", "o">>
Archives == <<"A", "r", "c", "h", "i", "v", "e", "s">>
Data == <<"D", "a", "t", "a">>
Web == <<"W", "e", "b">>
Other == <<"O", "t", "h", "e", "r">>

CATEGORIES ==
       <<".", "p", "y">> :> Python_Code
    @@ <<".", "i", "p", "y", "n", "b">> :> Notebooks
    @@ <<".", "t", "x", "t">> :> Documents
    @@ <<".", "m", "d">> :> Documents
    @@ <<".", "p", "d", "f">> :> Documents
    @@ <<".", "d", "o", "c", "x">> :> Documents
    @@ <<".", "x", "l", "s", "x">> :> Spreadsheets
    @@ <<".", "c", "s", "v">> :> Spreadsheets
    @@ <<".", "p", "n", "g">> :> Images
    @@ <<".", "j", "p", "g">> :> Images
    @@ <<".", "j", "p", "e", "g">> :> Images
    @@ <<".", "g", "i", "f">> :> Images
    @@ <<".", "b", "m", "p">> :> Images
    @@ <<".", "m", "p", "3">> :> Audio
    @@ <<".", "w", "a", "v">> :> Audio
    @@ <<".", "m", "p", "4">> :> Video
    @@ <<".", "m", "o", "v">> :> Video
    @@ <<".", "z", "i", "p">> :> Archives
    @@ <<".", "t", "a", "r">> :> Archives
    @@ <<".", "g", "z">> :> Archives
    @@ <<".", "j", "s", "o", "n">> :> Data
    @@ <<".", "x", "m", "l">> :> Data
    @@ <<".", "h", "t", "m", "l">> :> Web
    @@ <<".", "c", "s", "s">> :> Web
    @@ <<".", "j", "s">> :> Web

\* ext = item.suffix.lower(); category = CATEGORIES.get(ext, 'Other')
CategoryOf(name) ==
    LET ext == Lower(Suffix(name))
    IN  IF ext \in DOMAIN CATEGORIES THEN CATEGORIES[ext] ELSE Other

----------------------------------------------------------------------------
(* Paths and the filesystem *)

Root == <<>>

Parent(p) == SubSeq(p, 1, Len(p) - 1)

NameOf(p) == p[Len(p)]

Dir == [kind |-> "dir", id |-> 0, to |-> <<>>]

File(i) == [kind |-> "file", id |-> i, to |-> <<>>]

Link(t) == [kind |-> "link", id |-> 0, to |-> t]

\* what a path resolves to when its symlinks form a loop
Loop == <<<<"?">>>>

\* os.path.realpath: every component that is a symlink is replaced by its target
RECURSIVE RealPathFrom(_, _, _, _)
RealPathFrom(f, cur, rest, seen) ==
    IF rest = <<>> THEN cur
    ELSE LET nxt == Append(cur, Head(rest))
         IN  IF nxt \in DOMAIN f /\ f[nxt].kind = "link"
             THEN IF nxt \in seen THEN Loop
                  ELSE RealPathFrom(f, Root, f[nxt].to \o Tail(rest), seen \cup {nxt})
             ELSE RealPathFrom(f, nxt, Tail(rest), seen)

\* Path.resolve()
Resolve(f, p) == RealPathFrom(f, Root, p, {})

\* Path.exists(): follows symlinks; a path below a non-directory does not exist
Exists(f, p) == LET r == Resolve(f, p) IN r /= Loop /\ r \in DOMAIN f

\* Path.is_dir(): follows symlinks
IsDir(f, p) == Exists(f, p) /\ f[Resolve(f, p)].kind = "dir"

\* Path.is_symlink(): does not follow the last component
IsSymlink(f, p) == p \in DOMAIN f /\ f[p].kind = "link"

\* A faulty variant of is_same_file: paths are never the same file.
is_same_file_never(f, a, b) == FALSE

\* is_same_file: a.resolve() == b.resolve(), False when resolve() raises
is_same_file(f, a, b) ==
    LET ra == Resolve(f, a)
        rb == Resolve(f, b)
    IN  ra /= Loop /\ rb /= Loop /\ ra = rb

\* A faulty variant of Numbered: the counter is put after the suffix.
NumberedAfterSuffix(target, counter) ==
    Append(Parent(target),
           NameOf(target) \o <<" ", "(">> \o Decimal(counter) \o <<")">>)

\* new_target = parent / f"{stem} ({counter}){suffix}"
Numbered(target, counter) ==
    Append(Parent(target),
           Stem(NameOf(target)) \o <<" ", "(">> \o Decimal(counter) \o <<")">>
               \o Suffix(NameOf(target)))

\* A faulty variant of resolve_from: the counter is raised by two.
RECURSIVE resolve_from_by_two(_, _, _)
resolve_from_by_two(f, target, counter) ==
    IF Exists(f, Numbered(target, counter))
    THEN resolve_from_by_two(f, target, counter + 2)
    ELSE Numbered(target, counter)

\* the while loop of resolve_conflict, entered with the given counter
RECURSIVE resolve_from(_, _, _)
resolve_from(f, target, counter) ==
    IF Exists(f, Numbered(target, counter))
    THEN resolve_from(f, target, counter + 1)
    ELSE Numbered(target, counter)

\* how often the while loop of resolve_conflict evaluates new_target.exists()
RECURSIVE resolve_tests(_, _, _)
resolve_tests(f, target, counter) ==
    IF Exists(f, Numbered(target, counter))
    THEN 1 + resolve_tests(f, target, counter + 1)
    ELSE 1

\* A faulty variant of resolve_conflict: the first numbered name is taken unchecked.
resolve_conflict_unchecked(f, target) == Numbered(target, 1)

\* resolve_conflict(target)
resolve_conflict(f, target) == resolve_from(f, target, 1)

\* if target_path.exists(): target_path = resolve_conflict(target_path)
Destination(f, target_path) ==
    IF Exists(f, target_path) THEN resolve_conflict(f, target_path) ELSE target_path

----------------------------------------------------------------------------
(* source.rglob('*'): the lazy recursive walk *)

\* the order of two names in a directory listing: by character codes,
\* ascending or (r) descending
NameBefore(r, a, b) ==
    LET lo == IF r THEN b ELSE a
        hi == IF r THEN a ELSE b
    IN  \E k \in 1..Len(hi) :
            /\ \A j \in 1..(k - 1) : j <= Len(lo) /\ lo[j] = hi[j]
            /\ \/ k = Len(lo) + 1
               \/ k <= Len(lo) /\ Code(lo[k]) < Code(hi[k])

Children(f, d) ==
    {p \in DOMAIN f : Len(p) = Len(d) + 1 /\ SubSeq(p, 1, Len(d)) = d}

RECURSIVE Listed(_, _)
Listed(S, r) ==
    IF S = {} THEN <<>>
    ELSE LET m == CHOOSE p \in S :
                    \A q \in S \ {p} : NameBefore(r, NameOf(p), NameOf(q))
         IN  <<m>> \o Listed(S \ {m}, r)

\* entries = list(scandir(d)): the children of d at the time of the call
scandir(f, d, r) == Listed(Children(f, d), r)

\* the entries for which entry.is_dir(follow_symlinks=False) holds
RECURSIVE OnlyDirs(_, _)
OnlyDirs(f, entries) ==
    IF entries = <<>> THEN <<>>
    ELSE IF f[Head(entries)].kind = "dir"
         THEN <<Head(entries)>> \o OnlyDirs(f, Tail(entries))
         ELSE OnlyDirs(f, Tail(entries))

\* the generator before its first next()
NotStarted == [started |-> FALSE, stack |-> <<>>, wild |-> <<>>, yielded |-> {}]

Frame(d) == [dir |-> d, scanned |-> FALSE, todo |-> <<>>]

\* next() on the generator, resumed on the filesystem f: the next path, if any,
\* and the generator's new position.  A directory is listed when the walk
\* reaches it, once for its entries (wild) and once more, after they have all
\* been yielded, for its subdirectories (todo).
RECURSIVE Advance(_, _, _)
Advance(g, f, r) ==
    IF ~g.started
    THEN IF IsDir(f, Root)
         THEN Advance([started |-> TRUE, stack |-> <<Frame(Root)>>,
                       wild |-> scandir(f, Root, r), yielded |-> {}], f, r)
         ELSE [has |-> FALSE, item |-> Root, gen |-> [g EXCEPT !.started = TRUE]]
    ELSE IF g.wild /= <<>>
    THEN IF Head(g.wild) \in g.yielded
         THEN Advance([g EXCEPT !.wild = Tail(@)], f, r)
         ELSE [has |-> TRUE, item |-> Head(g.wild),
               gen |-> [g EXCEPT !.wild = Tail(@),
                                 !.yielded = @ \cup {Head(g.wild)}]]
    ELSE IF g.stack = <<>>
    THEN [has |-> FALSE, item |-> Root, gen |-> g]
    ELSE LET n == Len(g.stack)
             top == g.stack[n]
         IN  IF ~top.scanned
             THEN Advance([g EXCEPT !.stack[n] =
                              [dir |-> top.dir, scanned |-> TRUE,
                               todo |-> OnlyDirs(f, scandir(f, top.dir, r))]], f, r)
             ELSE IF top.todo = <<>>
             THEN Advance([g EXCEPT !.stack = SubSeq(@, 1, n - 1)], f, r)
             ELSE Advance([g EXCEPT !.stack = Append([@ EXCEPT ![n].todo = Tail(@)],
                                                     Frame(Head(top.todo))),
                                    !.wild = scandir(f, Head(top.todo), r)], f, r)

----------------------------------------------------------------------------
(* One iteration of the loop of organize_directory *)

\* A faulty variant of SkipsHidden: dotfiles are skipped whatever include_hidden says.
SkipsHiddenAlways(name, hid) == StartsWithDot(name)

\* if not include_hidden and item.name.startswith('.')
SkipsHidden(name, hid) == ~hid /\ StartsWithDot(name)

\* target_dir = source / category
TargetDir(item) == <<CategoryOf(NameOf(item))>>

\* target_path = target_dir / item.name
TargetPath(item) == Append(TargetDir(item), NameOf(item))

\* target_dir.mkdir(parents=True, exist_ok=True) raises FileExistsError when
\* the path is taken by something that is not a directory (a dangling symlink)
MkdirRaises(f, d) == d \in DOMAIN f

\* A faulty variant of AfterMkdir: the directory is created in dry-run too.
AfterMkdirAlways(f, d, dry) ==
    IF ~Exists(f, d) /\ ~MkdirRaises(f, d) THEN (d :> Dir) @@ f ELSE f

\* if not target_dir.exists(): if not dry_run: target_dir.mkdir(...)
AfterMkdir(f, d, dry) ==
    IF ~Exists(f, d) /\ ~dry /\ ~MkdirRaises(f, d) THEN (d :> Dir) @@ f ELSE f

\* os.rename(src, dst): dst is absent or a symlink that mkdir/exists() saw as
\* absent; the entry at src is moved to dst, replacing what is there
Renamed(f, src, dst) ==
    LET to == Append(Resolve(f, Parent(dst)), NameOf(dst))
    IN  [p \in (DOMAIN f \ {src}) \cup {to} |-> IF p = to THEN f[src] ELSE f[p]]

\* copy2(src, dst): the content is written through a symlink at dst
Copied(f, src, dst) == (Resolve(f, dst) :> f[src]) @@ f

\* how shutil.move(item, dst) ends for a regular file, given how the
\* environment treats the file (how): "ok", or the rename is refused and the
\* copy too ("clean"), or the rename is refused, the copy succeeds and the
\* unlink of the original is refused ("copied")
MoveEnds(f, src, dst, how) ==
    IF ~IsDir(f, Parent(dst)) THEN "NotADirectoryError"
    ELSE IF how = "ok" THEN "moved"
    ELSE IF how = "copied" /\ ~IsDir(f, Parent(Resolve(f, dst))) THEN "FileNotFoundError"
    ELSE "PermissionError"

\* the filesystem after shutil.move(str(item), str(target_path))
AfterMove(f, src, dst, how) ==
    IF MoveEnds(f, src, dst, how) = "moved" THEN Renamed(f, src, dst)
    ELSE IF MoveEnds(f, src, dst, how) = "PermissionError" /\ how = "copied"
    THEN Copied(f, src, dst)
    ELSE f

Entry(m, a, b) == [msg |-> m, a |-> a, b |-> b]

\* the log records of the directory step
MkdirLog(f, d) ==
    IF ~Exists(f, d) THEN <<Entry("Creating directory", d, d)>> ELSE <<>>

\* the log records of the conflict step
ConflictLog(f, item, target_path) ==
    IF Exists(f, target_path)
    THEN <<Entry("Conflict detected", item, target_path),
           Entry("Resolved conflict to", item, Destination(f, target_path))>>
    ELSE <<>>

\* A faulty variant of Outcome: the test for a file already in place is left out.
OutcomeNoInPlace(f, item, dry, hid, how) ==
    LET f1 == AfterMkdir(f, TargetDir(item), dry)
        dst == Destination(f1, TargetPath(item))
    IN  IF IsDir(f, item) \/ IsSymlink(f, item) THEN "skip_dir_or_symlink"
        ELSE IF SkipsHidden(NameOf(item), hid) THEN "skip_hidden"
        ELSE IF ~Exists(f, TargetDir(item)) /\ ~dry /\ MkdirRaises(f, TargetDir(item))
        THEN "FileExistsError"
        ELSE IF dry THEN "moved"
        ELSE MoveEnds(f1, item, dst, how)

\* which way one iteration of the loop body goes for item
Outcome(f, item, dry, hid, how) ==
    LET f1 == AfterMkdir(f, TargetDir(item), dry)
        dst == Destination(f1, TargetPath(item))
    IN  IF IsDir(f, item) \/ IsSymlink(f, item) THEN "skip_dir_or_symlink"
        ELSE IF SkipsHidden(NameOf(item), hid) THEN "skip_hidden"
        ELSE IF ~Exists(f, TargetDir(item)) /\ ~dry /\ MkdirRaises(f, TargetDir(item))
        THEN "FileExistsError"
        ELSE IF is_same_file(f1, item, TargetPath(item)) THEN "in_place"
        ELSE IF dry THEN "moved"
        ELSE MoveEnds(f1, item, dst, how)

----------------------------------------------------------------------------
(* The initial trees *)

MaxFiles == 3

MaxDenied == 1

x_txt == <<"x", ".", "t", "x", "t">>
x_1_txt == <<"x", " ", "(", "1", ")", ".", "t", "x", "t">>
b_PY == <<"b", ".", "P", "Y">>
a_py == <<"a", ".", "p", "y">>
notes == <<"n", "o", "t", "e", "s">>
photo_JPG == <<"p", "h", "o", "t", "o", ".", "J", "P", "G">>
dot_h == <<".", "h">>
sub == <<"s">>

\* the entries a tree is assembled from; a regular file's id is its index
Slots == <<
    [path |-> <<x_txt>>,             kind |-> "file", to |-> <<>>],
    [path |-> <<sub, x_txt>>,        kind |-> "file", to |-> <<>>],
    [path |-> <<Documents, x_txt>>,  kind |-> "file", to |-> <<>>],
    [path |-> <<Documents, x_1_txt>>, kind |-> "file", to |-> <<>>],
    [path |-> <<b_PY>>,              kind |-> "file", to |-> <<>>],
    [path |-> <<Documents, a_py>>,   kind |-> "file", to |-> <<>>],
    [path |-> <<Other>>,             kind |-> "file", to |-> <<>>],
    [path |-> <<notes>>,             kind |-> "file", to |-> <<>>],
    [path |-> <<dot_h>>,             kind |-> "file", to |-> <<>>],
    [path |-> <<Documents, x_txt>>,  kind |-> "link", to |-> <<x_txt>>],
    [path |-> <<Documents>>,         kind |-> "link", to |-> <<x_txt>>] >>

Prefixes(p) == {SubSeq(p, 1, k) : k \in 0..(Len(p) - 1)}

Compatible(S) ==
    \A i \in S : \A j \in S \ {i} :
        /\ Slots[i].path /= Slots[j].path
        /\ Slots[i].path \notin Prefixes(Slots[j].path)

SlotSets == {S \in SUBSET DOMAIN Slots : Cardinality(S) <= MaxFiles /\ Compatible(S)}

TreeOf(S) ==
    LET paths == {Slots[i].path : i \in S}
        dirs == {Root} \cup UNION {Prefixes(q) : q \in paths}
    IN  [p \in paths \cup dirs |->
            IF p \in paths
            THEN LET i == CHOOSE k \in S : Slots[k].path = p
                 IN  IF Slots[i].kind = "file" THEN File(i) ELSE Link(Slots[i].to)
            ELSE Dir]

FileSlots(S) == {i \in S : Slots[i].kind = "file"}

\* a source with a.py, b.PY, photo.JPG, notes and a pre-existing Python_Code/a.py
ExampleTree ==
       Root :> Dir
    @@ <<a_py>> :> File(21)
    @@ <<b_PY>> :> File(22)
    @@ <<photo_JPG>> :> File(23)
    @@ <<notes>> :> File(24)
    @@ <<Python_Code>> :> Dir
    @@ <<Python_Code, a_py>> :> File(25)

ExampleIds == {ExampleTree[p].id : p \in {q \in DOMAIN ExampleTree : ExampleTree[q].kind = "file"}}

\* a source path that does not exist, and one that is a regular file
NoSource == [p \in {} |-> Dir]

FileSource == (Root :> File(0))

----------------------------------------------------------------------------
(* organize_directory *)

ZeroSummary ==
    [total_files_seen |-> 0, moved_count |-> 0, errors_count |-> 0, skipped_count |-> 0]

\* nothing returned yet
NoResult ==
    [returned |-> "nothing", moved |-> <<>>, errors |-> <<>>, skipped |-> <<>>,
     summary |-> ZeroSummary]

\* return None
NoneResult == [NoResult EXCEPT !.returned = "None"]

NoPrev == [kind |-> "none", dry_run |-> FALSE, fs |-> NoSource, result |-> NoResult,
           log |-> <<>>]

NoUnit == [op |-> "none", stem |-> <<>>, ext |-> <<>>, n |-> 0, f |-> NoSource,
           out |-> <<>>, tests |-> 0, done |-> FALSE]

HowOf(f, item) ==
    IF f[item].kind = "file" /\ f[item].id \in DOMAIN deny THEN deny[f[item].id] ELSE "ok"

\* next(): the item the for loop gets, on the filesystem as it is now
Cur == Advance(gen, fs, rev)

\* which way the loop body goes for the item of c
OutcomeAt(c) == Outcome(fs, c.item, dry_run, include_hidden, HowOf(fs, c.item))

\* the filesystem after the directory step for the item of c
DirStepAt(c) == AfterMkdir(fs, TargetDir(c.item), dry_run)

\* the final target_path for the item of c
DestAt(c) == Destination(DirStepAt(c), TargetPath(c.item))

\* A faulty variant of SourceMissing: the precondition check is left out.
SourceMissingNever(f) == FALSE

\* if not source.exists()
SourceMissing(f) == ~Exists(f, Root)

\* organize_directory is called: the precondition check and the empty lists
Start ==
    /\ pc = "start"
    /\ IF SourceMissing(fs)
       THEN /\ log' = Append(log, Entry("Source directory does not exist", Root, Root))
            /\ result' = NoneResult
            /\ pc' = "done"
       ELSE /\ pc' = "loop"
            /\ UNCHANGED <<log, result>>
    /\ moved' = <<>>
    /\ errors' = <<>>
    /\ skipped' = <<>>
    /\ total_files' = 0
    /\ gen' = NotStarted
    /\ tick' = ~tick
    /\ UNCHANGED <<fs, fs0, dry_run, include_hidden, rev, deny, prev, unit>>

\* if item.is_dir() or item.is_symlink(): continue
SkipDirOrSymlink ==
    /\ pc = "loop"
    /\ LET c == Cur
       IN  /\ c.has
           /\ OutcomeAt(c) = "skip_dir_or_symlink"
           /\ gen' = c.gen
    /\ tick' = ~tick
    /\ UNCHANGED <<fs, fs0, dry_run, include_hidden, rev, deny, pc, moved, errors,
                   skipped, total_files, result, log, prev, unit>>

\* hidden file: skipped.append(item); continue
SkipHidden ==
    /\ pc = "loop"
    /\ LET c == Cur
       IN  /\ c.has
           /\ OutcomeAt(c) = "skip_hidden"
           /\ gen' = c.gen
           /\ skipped' = Append(skipped, c.item)
    /\ tick' = ~tick
    /\ UNCHANGED <<fs, fs0, dry_run, include_hidden, rev, deny, pc, moved, errors,
                   total_files, result, log, prev, unit>>

\* is_same_file(item, target_path): logging.debug("Skipping ..."); continue
AlreadyInPlace ==
    /\ pc = "loop"
    /\ LET c == Cur
       IN  /\ c.has
           /\ OutcomeAt(c) = "in_place"
           /\ gen' = c.gen
           /\ fs' = DirStepAt(c)
           /\ log' = log \o MkdirLog(fs, TargetDir(c.item))
                         \o <<Entry("Skipping (already in place)", c.item, c.item)>>
    /\ total_files' = total_files + 1
    /\ tick' = ~tick
    /\ UNCHANGED <<fs0, dry_run, include_hidden, rev, deny, pc, moved, errors,
                   skipped, result, prev, unit>>

\* the move is made (or, in dry-run, only logged) and recorded
Move ==
    /\ pc = "loop"
    /\ LET c == Cur
           f1 == DirStepAt(c)
           dst == DestAt(c)
       IN  /\ c.has
           /\ OutcomeAt(c) = "moved"
           /\ gen' = c.gen
           /\ fs' = IF dry_run THEN f1 ELSE AfterMove(f1, c.item, dst, HowOf(fs, c.item))
           /\ moved' = Append(moved, <<c.item, dst>>)
           /\ log' = log \o MkdirLog(fs, TargetDir(c.item))
                         \o ConflictLog(f1, c.item, TargetPath(c.item))
                         \o <<Entry("Moving", c.item, dst)>>
    /\ total_files' = total_files + 1
    /\ tick' = ~tick
    /\ UNCHANGED <<fs0, dry_run, include_hidden, rev, deny, pc, errors, skipped,
                   result, prev, unit>>

\* target_dir.mkdir raises: except (FileNotFoundError, OSError)
MkdirFails ==
    /\ pc = "loop"
    /\ LET c == Cur
       IN  /\ c.has
           /\ OutcomeAt(c) = "FileExistsError"
           /\ gen' = c.gen
           /\ errors' = Append(errors, <<c.item, "FileExistsError">>)
           /\ log' = log \o MkdirLog(fs, TargetDir(c.item))
                         \o <<Entry("OS error processing", c.item, c.item)>>
    /\ total_files' = total_files + 1
    /\ tick' = ~tick
    /\ UNCHANGED <<fs, fs0, dry_run, include_hidden, rev, deny, pc, moved, skipped,
                   result, prev, unit>>

\* A faulty variant of MoveDenied: the exception leaves the loop and the function.
MoveDeniedAborts ==
    /\ pc = "loop"
    /\ LET c == Cur
       IN  /\ c.has
           /\ OutcomeAt(c) = "PermissionError"
           /\ gen' = c.gen
           /\ fs' = AfterMove(DirStepAt(c), c.item, DestAt(c), HowOf(fs, c.item))
    /\ total_files' = total_files + 1
    /\ pc' = "done"
    /\ tick' = ~tick
    /\ UNCHANGED <<fs0, dry_run, include_hidden, rev, deny, moved, errors, skipped,
                   result, log, prev, unit>>

\* shutil.move raises PermissionError: except PermissionError
MoveDenied ==
    /\ pc = "loop"
    /\ LET c == Cur
           f1 == DirStepAt(c)
           dst == DestAt(c)
       IN  /\ c.has
           /\ OutcomeAt(c) = "PermissionError"
           /\ gen' = c.gen
           /\ fs' = AfterMove(f1, c.item, dst, HowOf(fs, c.item))
           /\ errors' = Append(errors, <<c.item, "PermissionError">>)
           /\ log' = log \o MkdirLog(fs, TargetDir(c.item))
                         \o ConflictLog(f1, c.item, TargetPath(c.item))
                         \o <<Entry("Moving", c.item, dst),
                              Entry("PermissionError processing", c.item, c.item)>>
    /\ total_files' = total_files + 1
    /\ tick' = ~tick
    /\ UNCHANGED <<fs0, dry_run, include_hidden, rev, deny, pc, moved, skipped,
                   result, prev, unit>>

\* shutil.move raises another OSError: except (FileNotFoundError, OSError)
MoveFails ==
    /\ pc = "loop"
    /\ LET c == Cur
           f1 == DirStepAt(c)
           dst == DestAt(c)
       IN  /\ c.has
           /\ OutcomeAt(c) \in {"NotADirectoryError", "FileNotFoundError"}
           /\ gen' = c.gen
           /\ fs' = AfterMove(f1, c.item, dst, HowOf(fs, c.item))
           /\ errors' = Append(errors, <<c.item, OutcomeAt(c)>>)
           /\ log' = log \o MkdirLog(fs, TargetDir(c.item))
                         \o ConflictLog(f1, c.item, TargetPath(c.item))
                         \o <<Entry("Moving", c.item, dst),
                              Entry("OS error processing", c.item, c.item)>>
    /\ total_files' = total_files + 1
    /\ tick' = ~tick
    /\ UNCHANGED <<fs0, dry_run, include_hidden, rev, deny, pc, moved, skipped,
                   result, prev, unit>>

\* A faulty variant of Finish: the function ends without returning the result.
FinishWithoutResult ==
    /\ pc = "loop"
    /\ LET c == Cur
       IN  /\ ~c.has
           /\ gen' = c.gen
    /\ pc' = "done"
    /\ tick' = ~tick
    /\ UNCHANGED <<fs, fs0, dry_run, include_hidden, rev, deny, moved, errors,
                   skipped, total_files, result, log, prev, unit>>

\* the generator is exhausted: the summary and the return value
Finish ==
    /\ pc = "loop"
    /\ LET c == Cur
       IN  /\ ~c.has
           /\ gen' = c.gen
    /\ pc' = "done"
    /\ result' = [returned |-> "result", moved |-> moved, errors |-> errors,
                  skipped |-> skipped,
                  summary |-> [total_files_seen |-> total_files,
                               moved_count |-> Len(moved),
                               errors_count |-> Len(errors),
                               skipped_count |-> Len(skipped)]]
    /\ log' = Append(log, Entry("=== Summary ===", Root, Root))
    /\ tick' = ~tick
    /\ UNCHANGED <<fs, fs0, dry_run, include_hidden, rev, deny, moved, errors,
                   skipped, total_files, prev, unit>>

\* the arguments and the environment of a run on the tree t
RunInit(t) ==
    /\ fs = t
    /\ fs0 = t
    /\ dry_run \in BOOLEAN
    /\ include_hidden \in BOOLEAN
    /\ rev \in BOOLEAN
    /\ pc = "start"
    /\ gen = NotStarted
    /\ moved = <<>>
    /\ errors = <<>>
    /\ skipped = <<>>
    /\ total_files = 0
    /\ result = NoResult
    /\ log = <<>>
    /\ prev = NoPrev
    /\ unit = NoUnit
    /\ tick = FALSE

Init ==
    \/ \E S \in SlotSets :
          /\ RunInit(TreeOf(S))
          /\ \E D \in SUBSET FileSlots(S) :
                /\ Cardinality(D) <= MaxDenied
                /\ dry_run => D = {}
                /\ deny \in [D -> {"clean", "copied"}]
    \/ /\ RunInit(ExampleTree)
       /\ \E D \in SUBSET ExampleIds :
             /\ Cardinality(D) <= MaxDenied
             /\ dry_run => D = {}
             /\ deny \in [D -> {"clean", "copied"}]
    \/ \E t \in {NoSource, FileSource} : RunInit(t) /\ deny = <<>>

Next ==
    \/ Start
    \/ SkipDirOrSymlink
    \/ SkipHidden
    \/ AlreadyInPlace
    \/ Move
    \/ MkdirFails
    \/ MoveDenied
    \/ MoveFails
    \/ Finish

Spec == Init /\ [][Next]_vars

\* the call has not returned: its thread of control takes another step
Proceed == pc /= "done" /\ tick' = ~tick

\* the call runs on its own thread of control until it returns
FairSpec == Spec /\ WF_tick(Proceed)

----------------------------------------------------------------------------
(* A second run on the same initial tree *)

ErrorItems(errs, what) == {errs[k][1] : k \in {j \in DOMAIN errs : errs[j][2] = what}}

\* the first item of a run that failed with a PermissionError
FirstDeniedOf(errs) ==
    errs[CHOOSE k \in DOMAIN errs :
            /\ errs[k][2] = "PermissionError"
            /\ \A j \in DOMAIN errs : errs[j][2] = "PermissionError" => k <= j][1]

\* organize_directory is called again: on the tree the first run started from,
\* with dry_run flipped ("flip") or in an environment where the first file
\* that was refused is not refused ("allow"); or on the tree a live run
\* without errors has left ("again")
Restart(kind) ==
    /\ pc = "done"
    /\ prev.kind = "none"
    /\ unit.op = "none"
    /\ kind = "allow" => ErrorItems(errors, "PermissionError") /= {}
    /\ kind = "again" => ~dry_run /\ errors = <<>> /\ result.returned = "result"
    /\ prev' = [kind |-> kind, dry_run |-> dry_run, fs |-> fs, result |-> result,
                log |-> log]
    /\ fs' = IF kind = "again" THEN fs ELSE fs0
    /\ dry_run' = IF kind = "flip" THEN ~dry_run ELSE dry_run
    /\ deny' = IF kind = "allow"
               THEN [i \in DOMAIN deny \ {fs[FirstDeniedOf(errors)].id} |-> deny[i]]
               ELSE deny
    /\ pc' = "start"
    /\ gen' = NotStarted
    /\ result' = NoResult
    /\ log' = <<>>
    /\ UNCHANGED <<fs0, include_hidden, rev, moved, errors, skipped, total_files, unit,
                   tick>>

NextFlip == Next \/ Restart("flip")

\* a dry run and a live run of the same tree
SpecFlip == Init /\ [][NextFlip]_vars

NextAllow == Next \/ Restart("allow")

\* a run in which a file is refused, and the run without that refusal
SpecAllow == Init /\ [][NextAllow]_vars

NextAgain == Next \/ Restart("again")

\* a live run without errors, and a second live run on the tree it has left
SpecAgain == Init /\ [][NextAgain]_vars

----------------------------------------------------------------------------
(* The helpers applied to single inputs *)

MaxN == 10

\* the counters as they are written in file names
Written == << <<"1">>, <<"2">>, <<"3">>, <<"4">>, <<"5">>, <<"6">>, <<"7">>, <<"8">>,
              <<"9">>, <<"1", "0">>, <<"1", "1">>, <<"1", "2">>, <<"1", "3">>,
              <<"1", "4">>, <<"1", "5">> >>

WrittenName(stem, k, ext) == stem \o <<" ", "(">> \o Written[k] \o <<")">> \o ext

\* stems without an extension of their own, and one that has one
PlainStems == {<<"p">>, <<".", "h">>, <<"x", " ", "(", "1", ")">>}

UnitStems == PlainStems \cup {<<"a", ".", "t", "x", "t">>}

\* the extension e with its letters upper-cased at the positions in U
Cased(e, U) ==
    [i \in DOMAIN e |->
        IF i \in U /\ \E k \in DOMAIN LowerCase : LowerCase[k] = e[i]
        THEN UpperCase[CHOOSE k \in DOMAIN LowerCase : LowerCase[k] = e[i]]
        ELSE e[i]]

UnitExts ==
    UNION {{e, Cased(e, DOMAIN e), Cased(e, {2}), Cased(e, {3})} : e \in DOMAIN CATEGORIES}
    \cup {<<>>, <<".", "z", "z", "z">>, <<".", "p">>, <<".", "p", "y", "c">>,
          <<".", "T", "X", "T", "2">>, <<".", "O", "t", "h", "e", "r">>}

\* Documents holds stem+ext and its numbered variants 1..n, and, when gap,
\* the variant n+2 as well
UnitTree(stem, ext, n, gap) ==
    LET names == {stem \o ext} \cup {WrittenName(stem, k, ext) : k \in 1..n}
                     \cup (IF gap THEN {WrittenName(stem, n + 2, ext)} ELSE {})
    IN  [p \in {Root, <<Documents>>} \cup {<<Documents, nm>> : nm \in names} |->
            IF Len(p) = 2 THEN File(1) ELSE Dir]

\* the tree f without the entry at p
Without(f, p) == [q \in DOMAIN f \ {p} |-> f[q]]

UnitInit ==
    /\ fs = NoSource /\ fs0 = NoSource
    /\ dry_run = FALSE /\ include_hidden = FALSE /\ rev = FALSE /\ deny = <<>>
    /\ pc = "done" /\ gen = NotStarted
    /\ moved = <<>> /\ errors = <<>> /\ skipped = <<>> /\ total_files = 0
    /\ result = NoResult /\ log = <<>> /\ prev = NoPrev /\ tick = FALSE
    /\ \E stem \in UnitStems :
          \/ \E ext \in UnitExts :
                /\ ext = <<>> => stem \in PlainStems
                /\ unit = [op |-> "category", stem |-> stem, ext |-> ext, n |-> 0,
                        f |-> NoSource, out |-> <<>>, tests |-> 0, done |-> FALSE]
          \/ \E ext \in {<<>>, <<".", "t", "x", "t">>, <<".", "P", "Y">>} :
             \E n \in 0..MaxN : \E gap \in BOOLEAN :
                /\ ext = <<>> => stem \in PlainStems
                /\ \/ unit = [op |-> "resolve", stem |-> stem, ext |-> ext, n |-> n,
                              f |-> UnitTree(stem, ext, n, gap), out |-> <<>>,
                              tests |-> 0, done |-> FALSE]
                   \/ \E present \in BOOLEAN :
                         unit = [op |-> "conflict", stem |-> stem, ext |-> ext, n |-> n,
                                 f |-> IF present THEN UnitTree(stem, ext, n, gap)
                                       ELSE Without(UnitTree(stem, ext, n, gap),
                                                    <<Documents, stem \o ext>>),
                                 out |-> <<>>, tests |-> 0, done |-> FALSE]

\* ext = item.suffix.lower(); category = CATEGORIES.get(ext, 'Other')
UnitCategory ==
    /\ unit.op = "category" /\ ~unit.done
    /\ unit' = [unit EXCEPT !.out = CategoryOf(unit.stem \o unit.ext), !.done = TRUE]
    /\ UNCHANGED <<fs, fs0, dry_run, include_hidden, rev, deny, pc, gen, moved, errors,
                   skipped, total_files, result, log, prev, tick>>

\* if target_path.exists(): target_path = resolve_conflict(target_path)
UnitResolve ==
    /\ unit.op = "resolve" /\ ~unit.done
    /\ unit' = [unit EXCEPT !.out = Destination(unit.f, <<Documents, unit.stem \o unit.ext>>),
                            !.done = TRUE]
    /\ UNCHANGED <<fs, fs0, dry_run, include_hidden, rev, deny, pc, gen, moved, errors,
                   skipped, total_files, result, log, prev, tick>>

\* resolve_conflict(target) called on its own, whether or not target exists
UnitConflict ==
    /\ unit.op = "conflict" /\ ~unit.done
    /\ unit' = [unit EXCEPT
                   !.out = resolve_conflict(unit.f, <<Documents, unit.stem \o unit.ext>>),
                   !.tests = resolve_tests(unit.f, <<Documents, unit.stem \o unit.ext>>, 1),
                   !.done = TRUE]
    /\ UNCHANGED <<fs, fs0, dry_run, include_hidden, rev, deny, pc, gen, moved, errors,
                   skipped, total_files, result, log, prev, tick>>

NextUnit == UnitCategory \/ UnitResolve \/ UnitConflict

SpecUnit == UnitInit /\ [][NextUnit]_vars

----------------------------------------------------------------------------
(* Properties *)

Range(q) == {q[k] : k \in DOMAIN q}

Sources(q) == {q[k][1] : k \in DOMAIN q}

Count(q, x) == Cardinality({k \in DOMAIN q : q[k] = x})

CountSource(q, x) == Cardinality({k \in DOMAIN q : q[k][1] = x})

Logged(lg, m) == {k \in DOMAIN lg : lg[k].msg = m}

InPlaceItems(lg) == {lg[k].a : k \in Logged(lg, "Skipping (already in place)")}

\* C1: a run with dry_run=True never changes the filesystem: at every point of
\* the run the tree (directories, files and their places) is the initial one.
DryRunLeavesTree == dry_run => fs = fs0

\* a finished dry run that announced a directory and recorded two moves
DryRunPreviewed ==
    /\ dry_run /\ pc = "done" /\ Len(moved) >= 2
    /\ Logged(log, "Creating directory") /= {}

\* C2: a dry run and a live run from the same tree return equal counts.
DryAndLiveCountsAgree ==
    (pc = "done" /\ prev.kind = "flip") => result.summary = prev.result.summary

\* C3: the destinations of the MoveRecords of one run are pairwise distinct.
MovedDestinationsDistinct ==
    \A i \in DOMAIN moved : \A j \in DOMAIN moved : i /= j => moved[i][2] /= moved[j][2]

\* the items the loop treated as regular files
FilesSeen(mv, er, sk, lg) == Sources(mv) \cup Sources(er) \cup Range(sk) \cup InPlaceItems(lg)

\* C4: every regular file the traversal enumerated is recorded exactly once,
\* in moved, in errors or in skipped.
EveryFileInOneList ==
    pc = "done" =>
        \A p \in FilesSeen(moved, errors, skipped, log) :
            CountSource(moved, p) + CountSource(errors, p) + Count(skipped, p) = 1

\* C5: a file that already lies at source/category/name is never moved and
\* never treated as a conflict: no MoveRecord has equal source and
\* destination, no moved, conflicting or failed item is its own target path,
\* and an item found in place has no conflict and no move logged.
InPlaceNeverMoved ==
    /\ \A k \in DOMAIN moved :
          /\ moved[k][1] /= moved[k][2]
          /\ moved[k][1] /= TargetPath(moved[k][1])
    /\ \A k \in DOMAIN log :
          /\ log[k].msg \in {"Conflict detected", "Moving"} =>
                /\ log[k].a /= <<CategoryOf(NameOf(log[k].a)), NameOf(log[k].a)>>
                /\ log[k].a \notin InPlaceItems(log)
          /\ log[k].msg = "Skipping (already in place)" =>
                /\ log[k].a \notin Sources(moved) \cup Sources(errors)
                /\ log[k].a \in DOMAIN fs /\ fs[log[k].a].kind = "file"

\* a live run has found a file at its own target path and has left it there
FoundInPlace ==
    /\ ~dry_run /\ pc = "done"
    /\ \E p \in InPlaceItems(log) :
          /\ Len(p) = 2 /\ p \in DOMAIN fs0 /\ fs[p] = fs0[p]
          /\ p \notin Sources(moved)

\* C6: when name.ext and name (1).ext ... name (N).ext exist and name (N+1).ext
\* does not, the destination chosen for the candidate name.ext is
\* name (N+1).ext in the same directory.
FirstFreeNumberChosen ==
    (unit.op = "resolve" /\ unit.done) =>
        unit.out = <<Documents, WrittenName(unit.stem, unit.n + 1, unit.ext)>>

\* the destination was chosen with ten numbered names taken and a later one too
TenthNameTaken ==
    /\ unit.op = "resolve" /\ unit.done /\ unit.n = 10
    /\ <<Documents, WrittenName(unit.stem, 12, unit.ext)>> \in DOMAIN unit.f
    /\ unit.out = <<Documents, unit.stem \o <<" ", "(", "1", "1", ")">> \o unit.ext>>

\* what became of the path p in a run
Kind(res, lg, p) ==
    IF p \in Sources(res.moved) THEN "moved"
    ELSE IF p \in Sources(res.errors) THEN "error"
    ELSE IF p \in Range(res.skipped) THEN "skipped"
    ELSE IF p \in InPlaceItems(lg) THEN "in_place"
    ELSE "none"

\* a refused file is recorded once in errors and not in moved
DeniedRecordedOnce ==
    \A p \in ErrorItems(errors, "PermissionError") :
        CountSource(errors, p) = 1 /\ p \notin Sources(moved)

\* the run ends only when the traversal is exhausted, and with a full result
RunsToTheEnd ==
    (pc = "done" /\ Root \in DOMAIN fs0) =>
        /\ ~Advance(gen, fs, rev).has
        /\ result.returned = "result"
        /\ result.errors = errors /\ result.moved = moved

MissingSourceReturnsNone ==
    pc = "done" =>
        IF Root \in DOMAIN fs0
        THEN /\ result.returned = "result"
             /\ result.summary.total_files_seen = total_files
        ELSE /\ result = NoneResult
             /\ fs = fs0
             /\ gen = NotStarted
             /\ moved = <<>> /\ errors = <<>> /\ skipped = <<>> /\ total_files = 0

\* the call on a missing source path has returned
ReturnedNone == pc = "done" /\ Root \notin DOMAIN fs0 /\ result.returned = "None"

\* the hidden regular files the traversal has enumerated
HiddenSeen ==
    {p \in gen.yielded : p \in DOMAIN fs0 /\ fs0[p].kind = "file" /\ NameOf(p)[1] = "."}

\* C9: with include_hidden=False every enumerated dotfile is in skipped
\* (once), is not counted, is neither moved nor an error, and stays where it
\* was; with include_hidden=True nothing is skipped.
HiddenFilesSkipped ==
    pc \in {"loop", "done"} =>
        IF include_hidden THEN skipped = <<>>
        ELSE /\ \A p \in HiddenSeen :
                    /\ Count(skipped, p) = 1
                    /\ p \notin Sources(moved) \cup Sources(errors) \cup InPlaceItems(log)
                    /\ p \in DOMAIN fs /\ fs[p] = fs0[p]
             /\ Range(skipped) \subseteq HiddenSeen
             /\ total_files = Len(moved) + Len(errors)
                                + Cardinality(Logged(log, "Skipping (already in place)"))

\* a live run has skipped a dotfile and moved another file
DotfileSkipped ==
    /\ ~include_hidden /\ ~dry_run /\ pc = "done"
    /\ skipped /= <<>> /\ moved /= <<>>

LetterPairs ==
    {<<"A", "a">>, <<"B", "b">>, <<"C", "c">>, <<"D", "d">>, <<"E", "e">>, <<"F", "f">>,
     <<"G", "g">>, <<"H", "h">>, <<"I", "i">>, <<"J", "j">>, <<"K", "k">>, <<"L", "l">>,
     <<"M", "m">>, <<"N", "n">>, <<"O", "o">>, <<"P", "p">>, <<"Q", "q">>, <<"R", "r">>,
     <<"S", "s">>, <<"T", "t">>, <<"U", "u">>, <<"V", "v">>, <<"W", "w">>, <<"X", "x">>,
     <<"Y", "y">>, <<"Z", "z">>}

\* e is the table key but for the case of its letters
IsKeyInAnyCase(e, key) ==
    /\ Len(e) = Len(key)
    /\ \A i \in DOMAIN e : e[i] = key[i] \/ <<e[i], key[i]>> \in LetterPairs

\* C10: the category of a file is the table entry of its extension whatever
\* the case of the extension, and Other when the extension is not in the
\* table or the file has none.
CategoryFollowsTable ==
    (unit.op = "category" /\ unit.done) =>
        /\ \A key \in DOMAIN CATEGORIES :
              IsKeyInAnyCase(unit.ext, key) => unit.out = CATEGORIES[key]
        /\ (\A key \in DOMAIN CATEGORIES : ~IsKeyInAnyCase(unit.ext, key)) =>
              unit.out = <<"O", "t", "h", "e", "r">>
        /\ unit.ext \in {<<".", "P", "N", "G">>, <<".", "p", "n", "g">>} =>
              unit.out = <<"I", "m", "a", "g", "e", "s">>

\* an upper-case extension of the table has been classified
UpperCaseClassified ==
    /\ unit.op = "category" /\ unit.done
    /\ unit.ext = <<".", "P", "N", "G">>
    /\ unit.out = Images

\* C11: after a live run that ended with no errors, a second live run on the
\* resulting tree (same include_hidden) moves no file and never changes the
\* filesystem.
SecondRunMovesNothing ==
    (prev.kind = "again" /\ pc \in {"loop", "done"}) =>
        /\ moved = <<>>
        /\ fs = prev.fs
        /\ pc = "done" => result.moved = <<>> /\ result.summary.moved_count = 0

\* the second run has finished after a first run that moved two files, one of
\* them to a numbered name, and it has enumerated them where they now lie
SecondRunDone ==
    /\ prev.kind = "again" /\ pc = "done"
    /\ Len(prev.result.moved) >= 2
    /\ Logged(prev.log, "Resolved conflict to") /= {}
    /\ \A k \in DOMAIN prev.result.moved : prev.result.moved[k][2] \in InPlaceItems(log)

\* C12: in a live run the parent of the destination of every attempted move
\* (source/category) is a directory when the move is attempted; directories
\* are never removed during a run, so it still is one afterwards.
MoveParentIsDirectory ==
    ~dry_run =>
        \A k \in DOMAIN log :
            log[k].msg = "Moving" =>
                /\ Parent(log[k].b) = TargetDir(log[k].a)
                /\ IsDir(fs, Parent(log[k].b))

\* the candidate path of a single evaluation
UnitCandidate == <<Documents, unit.stem \o unit.ext>>

\* the numbered variants of the candidate that exist
UnitVariants == {k \in DOMAIN Written :
                    <<Documents, WrittenName(unit.stem, k, unit.ext)>> \in DOMAIN unit.f}

\* C13: resolve_conflict returns a candidate that does not exist unchanged,
\* and a path with a " (N)" suffix only when the candidate exists.
ResolveConflictKeepsFreeCandidate ==
    (unit.op = "conflict" /\ unit.done) =>
        IF UnitCandidate \in DOMAIN unit.f
        THEN \E k \in DOMAIN Written :
                unit.out = <<Documents, WrittenName(unit.stem, k, unit.ext)>>
        ELSE unit.out = UnitCandidate

\* C14: resolve_conflict returns stem (N)suffix for the smallest N >= 1 whose
\* name does not exist, after testing at most (number of existing numbered
\* variants + 1) names.
ResolveConflictStopsAtFirstFree ==
    (unit.op = "conflict" /\ unit.done) =>
        /\ \E k \in DOMAIN Written :
              /\ unit.out = <<Documents, WrittenName(unit.stem, k, unit.ext)>>
              /\ k \notin UnitVariants
              /\ \A j \in 1..(k - 1) : j \in UnitVariants
              /\ unit.tests = k
        /\ unit.tests <= Cardinality(UnitVariants) + 1

\* resolve_conflict has passed ten taken names, with a later name taken too
ResolveConflictCounted ==
    /\ unit.op = "conflict" /\ unit.done /\ unit.n = 10
    /\ Cardinality(UnitVariants) = 11
    /\ unit.tests = 11
    /\ unit.out = <<Documents, unit.stem \o <<" ", "(", "1", "1", ")">> \o unit.ext>>

\* C15: a live run without failures on the example tree moves photo.JPG to
\* Images/photo.JPG and notes to Other/notes, has a.py in skipped, and returns
\* the summary total_files_seen=4, moved_count=3, errors_count=0, skipped_count=1.
ExampleRunAsDescribed ==
    (fs0 = ExampleTree /\ ~dry_run /\ deny = <<>> /\ pc = "done") =>
        /\ << <<photo_JPG>>, <<Images, photo_JPG>> >> \in Range(result.moved)
        /\ << <<notes>>, <<Other, notes>> >> \in Range(result.moved)
        /\ \E p \in Range(result.skipped) : NameOf(p) = <<"a", ".", "p", "y">>
        /\ result.summary = [total_files_seen |-> 4, moved_count |-> 3,
                             errors_count |-> 0, skipped_count |-> 1]

\* the regular files of a tree
RegularFiles(f) == {p \in DOMAIN f : f[p].kind = "file"}

\* the next step of the loop attempts a move
MoveIsNext(c) ==
    /\ pc = "loop" /\ ~dry_run /\ c.has
    /\ OutcomeAt(c) \in {"moved", "PermissionError", "NotADirectoryError", "FileNotFoundError"}

\* the destination of the move that is attempted next is free: it does not
\* exist, and no file or directory is at that path
NextDestinationFree ==
    LET c == Cur
    IN  MoveIsNext(c) =>
            /\ ~Exists(DirStepAt(c), DestAt(c))
            /\ DestAt(c) \in DOMAIN fs => fs[DestAt(c)].kind = "link"

\* C16: in a live run the destination of every move does not exist when the
\* move is made, no file or directory is overwritten, and the number of
\* regular files under the source stays what it was before the run.
MovesOverwriteNothing ==
    ~dry_run =>
        /\ NextDestinationFree
        /\ \A p \in DOMAIN fs0 :
              fs0[p].kind \in {"file", "dir"} => \E q \in DOMAIN fs : fs[q] = fs0[p]
        /\ Cardinality(RegularFiles(fs)) = Cardinality(RegularFiles(fs0))

\* C17: in a live run no destination of a MoveRecord is the source of a later
\* MoveRecord or of a failed move, and no path is the source of two MoveRecords.
MovedAtMostOnce ==
    ~dry_run =>
        /\ \A i \in DOMAIN moved : \A j \in DOMAIN moved :
              i < j => moved[i][2] /= moved[j][1] /\ moved[i][1] /= moved[j][1]
        /\ \A k \in DOMAIN moved : moved[k][2] \notin Sources(errors)

\* a live run has met a moved file again in a category directory that the run
\* itself created, and has gone on to move another file
MovedFileMetAgain ==
    /\ ~dry_run /\ pc = "done" /\ Len(moved) >= 2
    /\ \E k \in DOMAIN moved :
          /\ Parent(moved[k][2]) \notin DOMAIN fs0
          /\ moved[k][2] \in gen.yielded
          /\ moved[k][2] \in InPlaceItems(log)

\* every MoveRecord leads directly into the category directory of its source
\* file and keeps the extension
MovesLeadIntoCategory ==
    \A k \in DOMAIN moved :
        /\ Len(moved[k][2]) = 2
        /\ Parent(moved[k][2]) = <<CategoryOf(NameOf(moved[k][1]))>>
        /\ Suffix(NameOf(moved[k][2])) = Suffix(NameOf(moved[k][1]))

\* C18: after a live run with include_hidden=True and no errors every regular
\* file under the source lies directly in source/<category of its extension>,
\* and every MoveRecord leads directly into the category directory of its
\* source file and keeps the extension.
AllFilesInTheirCategory ==
    (pc = "done" /\ ~dry_run /\ include_hidden /\ errors = <<>> /\ IsDir(fs0, Root)) =>
        /\ \A p \in RegularFiles(fs) : p = <<CategoryOf(NameOf(p)), NameOf(p)>>
        /\ MovesLeadIntoCategory

\* every way the loop body can go for the next item is one the loop handles
\* and goes on from
StepAvailable ==
    pc = "loop" =>
        LET c == Cur
        IN  c.has => OutcomeAt(c) \in {"skip_dir_or_symlink", "skip_hidden", "in_place",
                                       "moved", "FileExistsError", "PermissionError",
                                       "NotADirectoryError", "FileNotFoundError"}

\* C19: every run on an existing source finishes and returns its result, with
\* the traversal exhausted and every failure recorded in the returned errors;
\* no item stops the loop.
RunFinishes ==
    /\ []StepAvailable
    /\ <>(/\ pc = "done"
          /\ Root \in DOMAIN fs0 =>
                /\ result.returned = "result"
                /\ ~Advance(gen, fs, rev).has
                /\ result.errors = errors
                /\ result.summary.total_files_seen = total_files)

\* a live run has returned after it met a moved file again in its category
\* directory and after a failure on another file
FinishedAfterFailure ==
    /\ ~dry_run /\ pc = "done" /\ result.returned = "result"
    /\ result.errors /= <<>>
    /\ \E k \in DOMAIN result.moved : result.moved[k][2] \in InPlaceItems(log)
    /\ \E k \in DOMAIN log : \E j \in DOMAIN log :
          /\ log[k].msg \in {"PermissionError processing", "OS error processing"}
          /\ log[j].msg = "Moving" /\ j > k

====
